---- MODULE Spec2Model ----
(***************************************************************************)
(* Model of the nxp_simtemp driver (src/kernel/scr/nxp_simtemp.c): the     *)
(* simtemp_dev state, the delayed work simtemp_update_fn, the sysfs        *)
(* attribute handlers, the poll file operation and module init/exit.       *)
(*                                                                         *)
(* Processes: one workqueue worker (runs simtemp_update_fn), the work's    *)
(* timer, a set of threads calling the sysfs handlers (Callers), a set of  *)
(* threads in poll() on the device file (Observers), and the thread that   *)
(* unloads the module (st_exit).  Every access to a simtemp_dev field is   *)
(* one step; steps taken under sd->lock are guarded by the lock.           *)
(***************************************************************************)
EXTENDS Integers, FiniteSets, TLC

(* ------------------------------ bounds -------------------------------- *)

\* samples the work produces before the model stops it (the guard of
\* simtemp_update_lock)
MaxSamples == 2

Callers == {"c1", "c2"}
Observers == {"o1", "o2"}
\* the client threads that run together in one behaviour
Populations == {{"c1", "c2"}, {"c1", "o1", "o2"}}

\* texts written to the sysfs attributes, named by the number they spell;
\* a negative number stands for a text kstrtouint rejects
EnableInputs == {-1, 0, 1, 2}
RateInputs == {-1, 0, 1, 100, 101}
ThresholdInputs == {40000}
\* values get_random_bytes may store in r
RandInputs == {500, 1000}
\* "sampling-hz" property of the device tree node; NoOverride: no property
NoOverride == -1
DtHzInputs == {NoOverride, 0}
\* "threshold-mc" property of the node (values that fit an int)
DtThresholdInputs == {NoOverride, 40000}

(* ------------------------- program constants -------------------------- *)

BASE_MC == 40000
JITTER_MOD == 1001
JITTER_OFF == 500
DEFAULT_HZ == 2
DEFAULT_TEMP_MC == 40000
DEFAULT_THRESHOLD_MC == 45000
HZ_MIN == 1
HZ_MAX == 100
MSEC_PER_SEC == 1000
EINVAL == 22

Worker == "kworker"
Rmmod == "rmmod"
NoProc == "none"

VARIABLES
  \* struct simtemp_dev
  enabled, sampling_hz, temp_mc, threshold_mc, data_ready, sample_count,
  lock,          \* holder of sd->lock, or NoProc
  freed,         \* kfree(sd) has run
  \* sd->work
  pending,       \* "none", "timer" (armed with a delay) or "queued"
  wdelay,        \* delay in ms the pending wake was armed with
  canceling,     \* threads inside cancel_delayed_work_sync
  \* the worker running simtemp_update_fn
  wpc, delta, delay,
  \* threads in enable_store: position, !!v, and whether enabled had that value
  cpc, carg, csame,
  \* threads in poll(): position, kind of wait, mask returned, wake-up flag
  opc, omode, omask, triggered,
  wq,            \* threads poll_wait queued on sd->wq
  xpc,           \* st_exit
  threads,       \* the client threads of this behaviour
  \* history variables used by the properties
  quiet,         \* a disable returned and no enable stored since
  lastRate,      \* the last rate in [1,100] given to sampling_hz_store, or 0
  hzRet,         \* what the last sampling_hz_store returned (0 before any)
  polledSince    \* st_poll ran and no sample was produced since

sdvars == <<enabled, sampling_hz, temp_mc, threshold_mc, data_ready, sample_count>>
workvars == <<pending, wdelay, canceling>>
wvars == <<wpc, delta, delay>>
cvars == <<cpc, carg, csame>>
ovars == <<opc, omode, omask, triggered, wq>>
hvars == <<quiet, lastRate, hzRet, polledSince>>
vars == <<sdvars, lock, freed, workvars, wvars, cvars, ovars, xpc, threads, hvars>>

(* ------------------------------ helpers -------------------------------- *)

\* kstrtouint(buf, 0, &v): fails on a text that is no unsigned number (the
\* inputs of the model all fit an unsigned int)
kstrtouint(s) == IF s >= 0 THEN [err |-> 0, v |-> s] ELSE [err |-> EINVAL, v |-> 0]

\* kstrtoint(buf, 0, &v): every input of the model is an int
kstrtoint(s) == [err |-> 0, v |-> s]

\* delta = ((int)(r % 1001)) - 500
JitterDelta(r) == (r % JITTER_MOD) - JITTER_OFF

\* (line 154 with v >= 100 for v > 100)
RateRejectedOffByOne(v) == v < HZ_MIN \/ v >= HZ_MAX

\* if (v < 1 || v > 100) return -EINVAL;
RateRejected(v) == v < HZ_MIN \/ v > HZ_MAX

\* (line 64 with the rate of line 215 instead of sd->sampling_hz)
DelayMsDefault(hz) == MSEC_PER_SEC \div DEFAULT_HZ

\* 1000 / sd->sampling_hz (defined only for a non-zero rate)
DelayMs(hz) == MSEC_PER_SEC \div hz

\* sd->enabled = !!v
Flag(v) == IF v # 0 THEN 1 ELSE 0

\* st_init: sd->sampling_hz = 2, replaced by the node's "sampling-hz" if present
InitHz(dt) == IF dt = NoOverride THEN DEFAULT_HZ ELSE dt

\* st_init: sd->threshold_mc = 45000, replaced by the node's "threshold-mc"
InitThreshold(dt) == IF dt = NoOverride THEN DEFAULT_THRESHOLD_MC ELSE dt

\* wake_up_interruptible(&sd->wq): every entry poll_wait queued is triggered
wake_up_interruptible(t) == [o \in Observers |-> t[o] \/ o \in wq]

\* no thread is inside enable_store / inside poll()
CallersIdle == \A p \in Callers : cpc[p] = "idle"
ObserversIdle == \A o \in Observers : opc[o] = "idle"

\* a handler may be entered until misc_deregister has removed the attributes
CanCall == xpc \in {"loaded", "x_flush", "x_dereg"}

(* ------------------------------- Init ---------------------------------- *)

Init ==
  /\ enabled = FALSE
  /\ \E dt \in DtHzInputs : sampling_hz = InitHz(dt)
  /\ temp_mc = DEFAULT_TEMP_MC
  /\ \E dt \in DtThresholdInputs : threshold_mc = InitThreshold(dt)
  /\ data_ready = FALSE
  /\ sample_count = 0
  /\ lock = NoProc
  /\ freed = FALSE
  /\ pending = "none" /\ wdelay = 0 /\ canceling = {}
  /\ wpc = "idle" /\ delta = 0 /\ delay = 0
  /\ cpc = [p \in Callers |-> "idle"]
  /\ carg = [p \in Callers |-> 0]
  /\ csame = [p \in Callers |-> FALSE]
  /\ opc = [o \in Observers |-> "idle"]
  /\ omode = [o \in Observers |-> "none"]
  /\ omask = [o \in Observers |-> FALSE]
  /\ triggered = [o \in Observers |-> FALSE]
  /\ wq = {}
  /\ xpc = "loaded"
  /\ threads \in Populations
  /\ quiet = FALSE /\ lastRate = 0 /\ hzRet = 0 /\ polledSince = FALSE

(* ---------------- the delayed work: simtemp_update_fn ------------------ *)

\* the timer of the delayed work expires: the work is queued
TimerFire ==
  /\ pending = "timer"
  /\ pending' = "queued" /\ wdelay' = 0
  /\ UNCHANGED <<sdvars, lock, freed, canceling, wvars, cvars, ovars, xpc, threads, hvars>>

\* the worker takes the queued work and enters simtemp_update_fn (lines 38-46)
simtemp_update_start ==
  /\ ~freed /\ pending = "queued" /\ wpc = "idle"
  /\ \E r \in RandInputs : delta' = JitterDelta(r)
  /\ pending' = "none" /\ wpc' = "lock"
  /\ UNCHANGED <<sdvars, lock, freed, wdelay, canceling, delay, cvars, ovars, xpc,
                 threads, hvars>>

\* (line 49 without its test of sd->enabled)
WorkSeesEnabledAlways(e) == TRUE

\* what the test of line 49 makes of sd->enabled
WorkSeesEnabled(e) == e

\* lines 48-52: lock taken, !sd->enabled, lock released, return
simtemp_update_disabled ==
  /\ ~freed /\ wpc = "lock" /\ lock = NoProc
  /\ ~WorkSeesEnabled(enabled)
  /\ wpc' = "idle" /\ delta' = 0
  /\ UNCHANGED <<sdvars, lock, freed, workvars, delay, cvars, ovars, xpc, threads, hvars>>

\* lines 48-49: lock taken, sd->enabled is set
simtemp_update_lock ==
  /\ ~freed /\ wpc = "lock" /\ lock = NoProc
  /\ WorkSeesEnabled(enabled)
  /\ sample_count < MaxSamples
  /\ lock' = Worker /\ wpc' = "temp"
  /\ UNCHANGED <<sdvars, freed, workvars, delta, delay, cvars, ovars, xpc, threads, hvars>>

\* line 54
simtemp_update_temp ==
  /\ ~freed /\ wpc = "temp"
  /\ temp_mc' = BASE_MC + delta
  /\ wpc' = "count" /\ delta' = 0
  /\ UNCHANGED <<enabled, sampling_hz, threshold_mc, data_ready, sample_count, lock,
                 freed, workvars, delay, cvars, ovars, xpc, threads, hvars>>

\* (line 55 as an assignment of 1 instead of an increment)
CountRestarted(c) == 1

\* sd->sample_count++ (a u64; the model stops the work far below 2^64)
CountIncremented(c) == c + 1

\* line 55
simtemp_update_count ==
  /\ ~freed /\ wpc = "count"
  /\ sample_count' = CountIncremented(sample_count)
  /\ wpc' = "ready"
  /\ UNCHANGED <<enabled, sampling_hz, temp_mc, threshold_mc, data_ready, lock,
                 freed, workvars, delta, delay, cvars, ovars, xpc, threads, hvars>>

\* line 56
simtemp_update_ready ==
  /\ ~freed /\ wpc = "ready"
  /\ data_ready' = TRUE
  /\ polledSince' = FALSE
  /\ wpc' = "wake"
  /\ UNCHANGED <<enabled, sampling_hz, temp_mc, threshold_mc, sample_count, lock,
                 freed, workvars, delta, delay, cvars, ovars, xpc, threads,
                 quiet, lastRate, hzRet>>

\* (line 62 removed: no wake-up below the threshold)
wake_up_never(t) == t

\* line 62: the else branch makes the same call as line 60
wake_up_else(t) == wake_up_interruptible(t)

\* lines 59-62: the wake-up flags after the if, cross being the outcome of
\* sd->temp_mc >= sd->threshold_mc
WakeResult(cross, t) == IF cross THEN wake_up_interruptible(t) ELSE wake_up_else(t)

\* lines 59-62: both branches wake the queue
simtemp_update_wake ==
  /\ ~freed /\ wpc = "wake"
  /\ triggered' = WakeResult(temp_mc >= threshold_mc, triggered)
  /\ wpc' = "delay"
  /\ UNCHANGED <<sdvars, lock, freed, workvars, delta, delay, cvars,
                 opc, omode, omask, wq, xpc, threads, hvars>>

\* lines 64-65: the division, then the unlock; a zero rate is a divide error
\* in the worker, which dies holding the lock
simtemp_update_delay ==
  /\ ~freed /\ wpc = "delay"
  /\ IF sampling_hz = 0
       THEN wpc' = "oops" /\ UNCHANGED <<delay, lock>>
       ELSE delay' = DelayMs(sampling_hz) /\ lock' = NoProc /\ wpc' = "resched"
  /\ UNCHANGED <<sdvars, freed, workvars, delta, cvars, ovars, xpc, threads, hvars>>

\* line 67: schedule_delayed_work does nothing if the work is already pending
\* or a cancel_delayed_work_sync is in progress
simtemp_update_resched ==
  /\ ~freed /\ wpc = "resched"
  /\ IF pending = "none" /\ canceling = {}
       THEN /\ pending' = IF delay = 0 THEN "queued" ELSE "timer"
            /\ wdelay' = delay
       ELSE UNCHANGED <<pending, wdelay>>
  /\ wpc' = "idle" /\ delta' = 0 /\ delay' = 0
  /\ UNCHANGED <<sdvars, lock, freed, canceling, cvars, ovars, xpc, threads, hvars>>

(* ------------------------- sysfs: enable_store ------------------------- *)

\* lines 130-134: the parse, then the store of sd->enabled under the lock;
\* a text that does not parse returns -EINVAL and touches nothing
enable_store_write(p, s) ==
  /\ p \in threads /\ CanCall /\ cpc[p] = "idle"
  /\ LET k == kstrtouint(s) IN
     IF k.err # 0
       THEN UNCHANGED <<enabled, cvars, quiet>>
       ELSE /\ lock = NoProc
            /\ enabled' = (Flag(k.v) = 1)
            /\ cpc' = [cpc EXCEPT ![p] = "es_read"]
            /\ carg' = [carg EXCEPT ![p] = Flag(k.v)]
            /\ csame' = [csame EXCEPT ![p] = (enabled = (Flag(k.v) = 1))]
            /\ quiet' = IF k.v # 0 THEN FALSE ELSE quiet
  /\ UNCHANGED <<sampling_hz, temp_mc, threshold_mc, data_ready, sample_count, lock,
                 freed, workvars, wvars, ovars, xpc, threads, lastRate, hzRet, polledSince>>

\* line 135: if (sd->enabled), read after the lock was released
enable_store_read(p) ==
  /\ cpc[p] = "es_read"
  /\ cpc' = [cpc EXCEPT ![p] = IF enabled THEN "es_mod" ELSE "es_cancel"]
  /\ UNCHANGED <<sdvars, lock, freed, workvars, wvars, carg, csame,
                 ovars, xpc, threads, hvars>>

\* line 139: enable_store returns; a disable that returns while enabled is
\* still false starts a quiet period
enable_store_return(p) ==
  /\ cpc' = [cpc EXCEPT ![p] = "idle"]
  /\ carg' = [carg EXCEPT ![p] = 0]
  /\ csame' = [csame EXCEPT ![p] = FALSE]
  /\ quiet' = (quiet \/ (carg[p] = 0 /\ ~enabled))

\* mod_delayed_work(system_wq, &sd->work, 0): the work is queued now, pending
\* or not, unless a cancel_delayed_work_sync holds it
mod_delayed_work_pending(pd, c) == IF c = {} THEN "queued" ELSE pd
mod_delayed_work_delay(d, c) == IF c = {} THEN 0 ELSE d

\* line 136
enable_store_mod(p) ==
  /\ cpc[p] = "es_mod"
  /\ pending' = mod_delayed_work_pending(pending, canceling)
  /\ wdelay' = mod_delayed_work_delay(wdelay, canceling)
  /\ enable_store_return(p)
  /\ UNCHANGED <<sdvars, lock, freed, canceling, wvars, ovars, xpc, threads,
                 lastRate, hzRet, polledSince>>

\* line 138, first half of cancel_delayed_work_sync: the pending wake is taken
\* off the timer or the queue, and queueing is refused from now on
enable_store_cancel(p) ==
  /\ cpc[p] = "es_cancel"
  /\ pending' = "none" /\ wdelay' = 0
  /\ canceling' = canceling \cup {p}
  /\ cpc' = [cpc EXCEPT ![p] = "es_flush"]
  /\ UNCHANGED <<sdvars, lock, freed, wvars, carg, csame, ovars, xpc, threads, hvars>>

\* whether cancel_delayed_work_sync may return: not while the work function runs
FlushDone(w) == w = "idle"

\* line 138, second half: wait until the work function is not running
enable_store_flush(p) ==
  /\ cpc[p] = "es_flush"
  /\ FlushDone(wpc)
  /\ canceling' = canceling \ {p}
  /\ enable_store_return(p)
  /\ UNCHANGED <<sdvars, lock, freed, pending, wdelay, wvars, ovars, xpc, threads,
                 lastRate, hzRet, polledSince>>

(* ---------------------- sysfs: the other handlers ---------------------- *)

\* (line 156 moved before the range check of line 154)
RateStoredUnchecked(old, k) == IF k.err # 0 THEN old ELSE k.v

\* what sampling_hz_store leaves in sd->sampling_hz (lines 152-156)
RateStored(old, k) == IF k.err # 0 \/ RateRejected(k.v) THEN old ELSE k.v

\* what sampling_hz_store returns: -EINVAL, or count (written 0 here)
sampling_hz_store_ret(s) ==
  LET k == kstrtouint(s) IN IF k.err # 0 \/ RateRejected(k.v) THEN -EINVAL ELSE 0

\* lines 148-158: no lock is taken
sampling_hz_store(p, s) ==
  /\ p \in threads /\ CanCall /\ cpc[p] = "idle"
  /\ sampling_hz' = RateStored(sampling_hz, kstrtouint(s))
  /\ lastRate' = IF s >= 1 /\ s <= 100 THEN s ELSE lastRate
  /\ hzRet' = sampling_hz_store_ret(s)
  /\ UNCHANGED <<enabled, temp_mc, threshold_mc, data_ready, sample_count, lock, freed,
                 workvars, wvars, cvars, ovars, xpc, threads, quiet, polledSince>>

\* lines 166-174: no lock is taken, no range is checked
threshold_mc_store(p, s) ==
  /\ p \in threads /\ CanCall /\ cpc[p] = "idle"
  /\ LET k == kstrtoint(s) IN
     threshold_mc' = IF k.err # 0 THEN threshold_mc ELSE k.v
  /\ UNCHANGED <<enabled, sampling_hz, temp_mc, data_ready, sample_count, lock, freed,
                 workvars, wvars, cvars, ovars, xpc, threads, hvars>>

\* a show handler reads one field without the lock and changes nothing
attr_show(p) ==
  /\ p \in threads /\ CanCall /\ cpc[p] = "idle"
  /\ UNCHANGED vars

\* lines 120-124
enable_show_ret == IF enabled THEN 1 ELSE 0
enable_show(p) == attr_show(p)

\* lines 143-147
sampling_hz_show_ret == sampling_hz
sampling_hz_show(p) == attr_show(p)

\* lines 161-165
threshold_mc_show_ret == threshold_mc
threshold_mc_show(p) == attr_show(p)

\* lines 177-181
temp_mc_show_ret == temp_mc
temp_mc_show(p) == attr_show(p)

(* ------------------------ the poll file operation ---------------------- *)

\* (lines 97-100 without line 99)
st_poll_keeps(ready) == ready

\* sd->data_ready as lines 97-100 leave it
st_poll_clears(ready) == IF ready THEN FALSE ELSE ready

\* lines 96-102: data_ready is tested and cleared under the lock and the mask
\* returned; poll() returns if the mask is set or the wait is over (last),
\* and sleeps otherwise
st_poll_locked(o, last) ==
  /\ ~freed /\ lock = NoProc
  /\ omask' = [omask EXCEPT ![o] = data_ready]
  /\ data_ready' = st_poll_clears(data_ready)
  /\ polledSince' = TRUE
  /\ IF data_ready \/ last
       THEN /\ opc' = [opc EXCEPT ![o] = "ret"]
            /\ wq' = wq \ {o}
       ELSE /\ opc' = [opc EXCEPT ![o] = "sleep"]
            /\ UNCHANGED wq
  /\ UNCHANGED <<enabled, sampling_hz, temp_mc, threshold_mc, sample_count, lock, freed,
                 workvars, wvars, cvars, xpc, threads, quiet, lastRate, hzRet>>

\* poll() with a zero timeout: st_poll runs once, poll_wait queues nothing
st_poll_nowait(o) ==
  /\ o \in threads /\ xpc = "loaded" /\ opc[o] = "idle"
  /\ omode' = [omode EXCEPT ![o] = "nowait"]
  /\ st_poll_locked(o, TRUE)
  /\ UNCHANGED triggered

\* (line 95 removed: the caller is not queued before the test of data_ready)
poll_wait_skipped(q, o) == q

\* poll_wait(f, &sd->wq, wait) with a wait table: the caller is queued on sd->wq
poll_wait(q, o) == q \cup {o}

\* line 95: poll() with a timeout ("timed") or none ("block"): poll_wait
\* queues the caller on sd->wq
st_poll_wait(o) ==
  /\ o \in threads /\ xpc = "loaded" /\ opc[o] = "idle"
  /\ \E m \in {"block", "timed"} : omode' = [omode EXCEPT ![o] = m]
  /\ wq' = poll_wait(wq, o)
  /\ opc' = [opc EXCEPT ![o] = "p_lock"]
  /\ UNCHANGED <<sdvars, lock, freed, workvars, wvars, cvars, omask, triggered, xpc,
                 threads, hvars>>

\* lines 96-102 of that first call
st_poll_first(o) ==
  /\ opc[o] = "p_lock"
  /\ st_poll_locked(o, FALSE)
  /\ triggered' = IF data_ready THEN [triggered EXCEPT ![o] = FALSE] ELSE triggered
  /\ UNCHANGED omode

\* a sleeper whose queue entry was triggered calls st_poll again
poll_wake(o) ==
  /\ opc[o] = "sleep" /\ triggered[o]
  /\ st_poll_locked(o, FALSE)
  /\ triggered' = [triggered EXCEPT ![o] = FALSE]
  /\ UNCHANGED omode

\* the timeout of a timed poll() expires: st_poll is called a last time
poll_timeout(o) ==
  /\ opc[o] = "sleep" /\ omode[o] = "timed" /\ ~triggered[o]
  /\ st_poll_locked(o, TRUE)
  /\ UNCHANGED <<omode, triggered>>

\* lines 70-87: read() at offset 0 with a buffer that holds the text; the
\* text is "temp_mc=%d\n" of sd->temp_mc, read without the lock
st_read_ret == temp_mc
st_read(o) ==
  /\ o \in threads /\ xpc = "loaded" /\ opc[o] = "idle"
  /\ UNCHANGED vars

\* poll() returns to the observer
poll_return(o) ==
  /\ opc[o] = "ret"
  /\ opc' = [opc EXCEPT ![o] = "idle"]
  /\ omode' = [omode EXCEPT ![o] = "none"]
  /\ omask' = [omask EXCEPT ![o] = FALSE]
  /\ UNCHANGED <<sdvars, lock, freed, workvars, wvars, cvars, triggered, wq, xpc,
                 threads, hvars>>

(* ------------------------------- st_exit ------------------------------- *)

\* line 256, first half of cancel_delayed_work_sync; the module can be
\* unloaded only while no file of the device is open
st_exit_cancel ==
  /\ xpc = "loaded" /\ ObserversIdle
  /\ pending' = "none" /\ wdelay' = 0
  /\ canceling' = canceling \cup {Rmmod}
  /\ xpc' = "x_flush"
  /\ UNCHANGED <<sdvars, lock, freed, wvars, cvars, ovars, threads, hvars>>

\* line 256, second half: wait until the work function is not running
st_exit_flush ==
  /\ xpc = "x_flush" /\ FlushDone(wpc)
  /\ canceling' = canceling \ {Rmmod}
  /\ xpc' = "x_dereg"
  /\ UNCHANGED <<sdvars, lock, freed, pending, wdelay, wvars, cvars, ovars, threads, hvars>>

\* line 257: misc_deregister removes the attributes once no handler is running
st_exit_deregister ==
  /\ xpc = "x_dereg" /\ CallersIdle
  /\ xpc' = "x_kfree"
  /\ UNCHANGED <<sdvars, lock, freed, workvars, wvars, cvars, ovars, threads, hvars>>

\* line 258
st_exit_kfree ==
  /\ xpc = "x_kfree"
  /\ freed' = TRUE
  /\ xpc' = "unloaded"
  /\ UNCHANGED <<sdvars, lock, workvars, wvars, cvars, ovars, threads, hvars>>

\* the work runs, or goes on running, on the freed simtemp_dev: it may end
\* normally, re-arm itself or fault
WorkUseAfterFree ==
  /\ freed
  /\ pending = "queued" \/ wpc \notin {"idle", "oops"}
  /\ \E w \in {"idle", "oops"}, q \in {"none", "timer"} :
       wpc' = w /\ pending' = q
  /\ wdelay' = 0 /\ delta' = 0 /\ delay' = 0
  /\ UNCHANGED <<sdvars, lock, freed, canceling, cvars, ovars, xpc, threads, hvars>>

(* ----------------------------- specification --------------------------- *)

Next ==
  \/ TimerFire
  \/ simtemp_update_start
  \/ simtemp_update_disabled
  \/ simtemp_update_lock
  \/ simtemp_update_temp
  \/ simtemp_update_count
  \/ simtemp_update_ready
  \/ simtemp_update_wake
  \/ simtemp_update_delay
  \/ simtemp_update_resched
  \/ \E p \in Callers, s \in EnableInputs : enable_store_write(p, s)
  \/ \E p \in Callers : enable_store_read(p)
  \/ \E p \in Callers : enable_store_mod(p)
  \/ \E p \in Callers : enable_store_cancel(p)
  \/ \E p \in Callers : enable_store_flush(p)
  \/ \E p \in Callers, s \in RateInputs : sampling_hz_store(p, s)
  \/ \E p \in Callers, s \in ThresholdInputs : threshold_mc_store(p, s)
  \/ \E p \in Callers : enable_show(p)
  \/ \E p \in Callers : sampling_hz_show(p)
  \/ \E p \in Callers : threshold_mc_show(p)
  \/ \E p \in Callers : temp_mc_show(p)
  \/ \E o \in Observers : st_poll_nowait(o)
  \/ \E o \in Observers : st_poll_wait(o)
  \/ \E o \in Observers : st_poll_first(o)
  \/ \E o \in Observers : poll_wake(o)
  \/ \E o \in Observers : poll_timeout(o)
  \/ \E o \in Observers : poll_return(o)
  \/ \E o \in Observers : st_read(o)
  \/ st_exit_cancel
  \/ st_exit_flush
  \/ st_exit_deregister
  \/ st_exit_kfree
  \/ WorkUseAfterFree

Spec == Init /\ [][Next]_vars

(* ------------------------------ properties ----------------------------- *)

\* a sampling cycle is scheduled or executing / neither
Running == pending # "none" \/ wpc # "idle"
Stopped == pending = "none" /\ wpc = "idle"

\* C1: once an enable_store(0) has returned with enabled false (no enable
\* overtook it), sample_count does not increase before an enable_store(1)
\* stores true again; quiet is reset by that store.
C1_NoSampleAfterDisable == [][quiet => sample_count' = sample_count]_vars

\* a cycle that was queued by a late mod_delayed_work of an earlier enable
\* runs after the disable has returned, with samples already produced
C1_Witness == quiet /\ sample_count >= 1 /\ wpc = "lock"

\* C2: at the step in which enable_store(0) returns, no cycle is executing
\* and none is pending.
C2_DisableReturnsQuiescent ==
  [][\A p \in Callers :
       (cpc[p] \in {"es_mod", "es_flush"} /\ carg[p] = 0 /\ cpc'[p] = "idle")
         => (pending' = "none" /\ wpc' = "idle")]_vars

\* C3: when enabled is true, every enable_store has returned (so the last
\* store of true was not followed by a store of false), the module is loaded
\* and no sample has been produced yet, a cycle is pending or executing:
\* otherwise no sample can follow the enable.
C3_EnableLeadsToSample ==
  (enabled /\ CallersIdle /\ xpc = "loaded" /\ sample_count = 0) => Running

\* C4: a step of an enable_store whose value is the one enabled had at its
\* store, taken while the sampler is in the matching state and no other
\* enable_store is in progress, changes no field of simtemp_dev and leaves
\* the pending wake and its delay as they were.
C4_SameValueIsNoOp ==
  [][\A p \in Callers :
       ( /\ csame[p] /\ cpc[p] # "idle" /\ cpc'[p] # cpc[p]
         /\ \A q \in Callers \ {p} : cpc[q] = "idle"
         /\ carg[p] = 1 => (enabled /\ Running)
         /\ carg[p] = 0 => (~enabled /\ Stopped) )
         => UNCHANGED <<sdvars, pending, wdelay>>]_vars

\* C5: sampling_hz_store accepts every rate of [1,100], and after such a
\* store sampling_hz_show returns the rate last stored.
C5_RateRoundTrip ==
  /\ \A s \in RateInputs : (s >= 1 /\ s <= 100) => sampling_hz_store_ret(s) = 0
  /\ lastRate # 0 => sampling_hz_show_ret = lastRate

\* a rate was stored and a cycle has computed its delay from it
C5_Witness == lastRate = 100 /\ sampling_hz_show_ret = 100 /\ wdelay = 10

\* C6: a sampling_hz_store of a value outside [1,100] returns -EINVAL and
\* changes no field of simtemp_dev and nothing of the pending work.
C6_RejectedRateUnchanged ==
  [][\A p \in Callers, s \in RateInputs :
       ((s < 1 \/ s > 100) /\ sampling_hz_store(p, s))
         => (hzRet' = -EINVAL /\ UNCHANGED <<sdvars, workvars, wvars, lock>>)]_vars

\* a store was rejected after a valid one, while a wake was pending
C6_Witness ==
  /\ hzRet = -EINVAL /\ lastRate = 100 /\ sampling_hz = 100
  /\ enabled /\ xpc = "loaded" /\ pending = "timer" /\ wdelay = 10

\* C7: the stored rate is in [1,100] and the cycle's delay 1000 / sampling_hz
\* is defined and in [10,1000].
C7_RateInRange ==
  /\ sampling_hz >= 1 /\ sampling_hz <= 100
  /\ DelayMs(sampling_hz) >= 10 /\ DelayMs(sampling_hz) <= 1000

\* a step in which thread o runs the locked section of st_poll
PollStep(o) == st_poll_nowait(o) \/ st_poll_first(o) \/ poll_wake(o) \/ poll_timeout(o)

\* C8: st_poll returns the ready mask exactly when data_ready was true, leaves
\* data_ready false, and returns no mask when it ran before with no sample
\* produced since.
C8_PollReadsAndClears ==
  [][\A o \in Observers :
       PollStep(o) => /\ omask'[o] = data_ready
                      /\ data_ready' = FALSE
                      /\ polledSince => ~omask'[o]]_vars

\* a poll returned ready, cleared the flag, and a sample had been produced
C8_Witness ==
  \E o \in Observers : opc[o] = "ret" /\ omask[o] /\ ~data_ready /\ sample_count >= 1

\* C9: an observer blocked in poll() without timeout that the work's wake-up
\* has triggered returns ready from the st_poll call it then makes.
C9_WokenObserverReturnsReady ==
  [][\A o \in Observers :
       (omode[o] = "block" /\ poll_wake(o)) => (opc'[o] = "ret" /\ omask'[o])]_vars

\* C10: once kfree(sd) has run, no cycle is pending or executing.
C10_NoCycleAfterFree == freed => Stopped

\* C11: a field of simtemp_dev is written only under sd->lock: a step that
\* changes a field is a step of the lock's holder, or takes the lock itself
\* (so the lock is free before it); no field changes inside another
\* thread's critical section.
C11_FieldsUnderLock ==
  [][sdvars' # sdvars =>
       (lock = NoProc \/ (lock = Worker /\ wpc \in {"temp", "count", "ready"}
                                        /\ wpc' # wpc))]_vars

\* C12: a reading that temp_mc_show or st_read can return belongs to a
\* counted sample: while sample_count is 0, a reader that can take its step
\* finds the initial reading and the flag unset.
C12_SampleAtomic ==
  /\ (ENABLED (\E p \in Callers : temp_mc_show(p)) /\ sample_count = 0)
        => (temp_mc_show_ret = DEFAULT_TEMP_MC /\ ~data_ready)
  /\ (ENABLED (\E o \in Observers : st_read(o)) /\ sample_count = 0)
        => (st_read_ret = DEFAULT_TEMP_MC /\ ~data_ready)

\* C13: an observer that found data_ready false and sleeps while data_ready
\* is true again has been triggered by the work's wake-up (or the work is
\* about to call it), so it does not sleep past the sample; and the wake-up
\* step leaves data_ready true whoever is waiting.
C13_NoLostWakeup ==
  /\ [](\A o \in Observers :
          (opc[o] = "sleep" /\ data_ready /\ wpc # "wake") => triggered[o])
  /\ [][simtemp_update_wake => (data_ready /\ data_ready')]_vars

\* a sample was produced and signalled after the observer's test and before
\* it was scheduled again
C13_Witness ==
  \E o \in Observers :
    /\ opc[o] = "sleep" /\ omode[o] = "block" /\ ~omask[o]
    /\ data_ready /\ triggered[o] /\ wpc # "wake"

\* C14: an accepted sampling_hz_store changes sampling_hz and nothing else:
\* not the pending wake, its delay, or the cycle in progress; the first delay
\* a cycle computes after it is 1000 / the new rate, and that is the delay the
\* cycle arms the next wake with.
C14_RateChangeNextCycle ==
  /\ [][\A p \in Callers, s \in RateInputs :
          (s >= 1 /\ s <= 100 /\ sampling_hz_store(p, s))
            => /\ sampling_hz' = s
               /\ UNCHANGED <<enabled, temp_mc, threshold_mc, data_ready,
                              sample_count, workvars, wvars, lock>>]_vars
  /\ [][(simtemp_update_delay /\ lastRate # 0)
          => delay' = MSEC_PER_SEC \div lastRate]_vars
  /\ [][(simtemp_update_resched /\ pending' # pending)
          => (pending' = "timer" /\ wdelay' = delay)]_vars

\* the rate was changed to 100 Hz while a wake armed at the default rate is
\* pending: the wake keeps its 500 ms
C14_Witness ==
  /\ lastRate = 100 /\ sampling_hz = 100 /\ xpc = "loaded" /\ enabled
  /\ pending = "timer" /\ wdelay = MSEC_PER_SEC \div DEFAULT_HZ

\* C15: every step leaves sample_count unchanged or adds exactly 1 to it; it
\* is added to only by the work, inside the critical section in which it
\* found enabled true and has just stored the reading of that sample, and
\* every such cycle adds 1.
C15_CountMonotonic ==
  /\ [][\/ sample_count' = sample_count
        \/ /\ sample_count' = sample_count + 1
           /\ wpc = "count" /\ wpc' = "ready" /\ lock = Worker /\ enabled
           /\ UNCHANGED <<enabled, sampling_hz, temp_mc, threshold_mc, data_ready>>
       ]_vars
  /\ [][simtemp_update_count => sample_count' = sample_count + 1]_vars

\* the work has just counted its second sample
C15_Witness == sample_count = 2 /\ wpc = "ready" /\ lock = Worker /\ ~quiet

\* C16: data_ready goes from false to true only in the step of line 56, taken
\* by the work in the critical section in which it found enabled true and
\* counted the sample; it goes from true to false only in a step of st_poll.
C16_FlagTransitions ==
  [][/\ (~data_ready /\ data_ready')
          => (simtemp_update_ready /\ lock = Worker /\ enabled /\ sample_count >= 1)
     /\ (data_ready /\ ~data_ready')
          => \E o \in Observers : PollStep(o)]_vars

\* the flag of the first sample was consumed by a poll that is returning
\* ready, and the second sample has set it again
C16_Witness ==
  /\ data_ready /\ sample_count = 2 /\ wpc = "wake"
  /\ \E o \in Observers : opc[o] = "ret" /\ omask[o]

\* C17: the threshold changes nothing but itself.  The only step that reads
\* threshold_mc besides threshold_mc_show is the wake-up of lines 59-62, and
\* in every reachable state its result is the same on both sides of the
\* comparison: every queued observer is triggered; the step changes nothing
\* else; and a step that changes threshold_mc changes no other variable.
C17_ThresholdNoEffect ==
  /\ [](WakeResult(TRUE, triggered) = WakeResult(FALSE, triggered))
  /\ [][simtemp_update_wake
          => /\ triggered' = [o \in Observers |-> triggered[o] \/ o \in wq]
             /\ UNCHANGED <<sdvars, lock, freed, workvars, delta, delay, cvars,
                            opc, omode, omask, wq, xpc, threads, hvars>>]_vars
  /\ [][threshold_mc' # threshold_mc
          => UNCHANGED <<enabled, sampling_hz, temp_mc, data_ready, sample_count,
                         lock, freed, workvars, wvars, cvars, ovars, xpc, threads,
                         hvars>>]_vars

\* a sample below the threshold has triggered a sleeping observer
C17_Witness ==
  /\ wpc = "delay" /\ temp_mc < threshold_mc /\ data_ready
  /\ \E o \in Observers : opc[o] = "sleep" /\ triggered[o]

\* C18: the step in which a cycle finds enabled false changes no field of
\* simtemp_dev, triggers no observer, and leaves the sampler stopped: no
\* cycle executing and none pending.
C18_DisabledCycleNoEffect ==
  [][simtemp_update_disabled
       => (UNCHANGED <<sdvars, triggered>> /\ pending' = "none" /\ wpc' = "idle")]_vars

\* C19: while the module is loaded and no enable_store is in progress, the
\* enabled flag tells whether the sampler runs: enabled true means a cycle
\* is pending or executing, enabled false means none is.
C19_EnabledMatchesRunning ==
  (CallersIdle /\ xpc = "loaded") => (enabled <=> Running)

\* a step of the work function between its lock and its unlock
CriticalStep ==
  \/ simtemp_update_temp \/ simtemp_update_count \/ simtemp_update_ready
  \/ simtemp_update_wake \/ simtemp_update_delay

\* C20: nothing waits or stops while holding sd->lock: whenever the lock of
\* the live device is held, its holder can take its next step, so the lock
\* is released and every handler waiting for it returns.
C20_LockHolderProgresses ==
  (lock # NoProc /\ ~freed) => (lock = Worker /\ ENABLED CriticalStep)

====
